---- MODULE Spec2Model ----
(***************************************************************************)
(* Model of cajamarca5.py: a Streamlit script that loads a census table    *)
(* once (st.cache_data), derives the quinquennial AgeGroup of every row    *)
(* and, on every rerun, renders the metric cards, the population pyramid,  *)
(* the temporal trend, the comparison chart (or a warning) and the detail  *)
(* table for the current widget selection.                                 *)
(*                                                                         *)
(* A DataFrame is a sequence of rows; a row is a function from column      *)
(* names to values.  A rerun of the script is one action.  Chart styling   *)
(* (colours, titles, tick labels, the formatted bar labels of the          *)
(* comparison chart) is not state of the program and is not modelled.      *)
(* A float is an exact rational or one of nan, inf, -inf: the rounding of  *)
(* float64 arithmetic is not modelled.                                     *)
(***************************************************************************)
EXTENDS Integers, Sequences, FiniteSets, TLC

VARIABLES
    file,           \* poblacion_cajamarca_estandarizado.csv: [exists, rows]
    cache,          \* the st.cache_data entry of load_data(): [filled, value]
    reads,          \* how many times pd.read_csv has been called in this process
    status,         \* "start" before the first run, then "ok" or "error"
    df,             \* the script's module-level df of the last run
    years,          \* the script's module-level years of the last run
    selected_year,  \* value of the selectbox
    year1,          \* lower handle of the range slider
    year2,          \* upper handle of the range slider
    metrics,        \* the three metric cards
    pyramid,        \* traces of the figure shown in tab1
    trend,          \* the unstacked frame plotted in tab2
    compared,       \* TRUE when tab3 invoked generate_comparison_chart
    comparison,     \* df_compare plotted in tab3
    warning,        \* TRUE when tab3 shows st.warning
    detail          \* the frame shown in the expander

vars == <<file, cache, reads, status, df, years, selected_year, year1, year2,
          metrics, pyramid, trend, compared, comparison, warning, detail>>

(***************************************************************************)
(* Bounds of the input space.                                              *)
(***************************************************************************)
MaxRows == 3        \* rows of a grid file
MaxValue == 2       \* largest Población of a sweep file
MaxAgeEnd == 121    \* largest EdadFin of a sweep file

(***************************************************************************)
(* Markers.                                                                *)
(***************************************************************************)
NA == "NaN"                                 \* a missing AgeGroup
\* a float is a record [num, den]: the real num/den in lowest terms when
\* den > 0, and one of the three non-finite values when den = 0
NaN == [num |-> 0, den |-> 0]               \* float nan
Inf == [num |-> 1, den |-> 0]               \* float +inf
NegInf == [num |-> -1, den |-> 0]           \* float -inf
NoEntry == [filled |-> FALSE, value |-> <<>>]     \* load_data() has no cached value
MissingFile == [exists |-> FALSE, rows |-> <<>>]  \* the CSV is not there

(***************************************************************************)
(* Generic helpers on sequences and numbers.                               *)
(***************************************************************************)
Range(s) == {s[i] : i \in DOMAIN s}

RECURSIVE SumSeq(_)
SumSeq(s) == IF s = <<>> THEN 0 ELSE Head(s) + SumSeq(Tail(s))

Abs(x) == IF x < 0 THEN -x ELSE x

RECURSIVE GCD(_, _)
GCD(a, b) == IF b = 0 THEN a ELSE GCD(b, a % b)

\* the real number n/d (d # 0) in lowest terms with a positive denominator
Ratio(n, d) ==
    LET g == GCD(Abs(n), Abs(d))
        s == IF d < 0 THEN -1 ELSE 1
    IN  [num |-> s * (n \div g), den |-> s * (d \div g)]

Min(S) == CHOOSE x \in S : \A y \in S : x <= y

\* Python's sorted() of a set of integers
RECURSIVE sorted(_)
sorted(S) == IF S = {} THEN <<>> ELSE <<Min(S)>> \o sorted(S \ {Min(S)})

(***************************************************************************)
(* The input file.  Rows carry the Spanish column names of the CSV.        *)
(***************************************************************************)
InputYears == <<1981, 2017>>
InputAgeEnds == <<4, 9, 82>>      \* two keys of the mapping, one value outside it
Sexes == <<"Hombre", "Mujer">>
InputValues == <<1>>               \* Población of a grid row

AgeStartOf(e) == IF e = 120 THEN 80 ELSE IF e >= 4 THEN e - 4 ELSE 0

CsvRow(t, e, s, v) ==
    ("Departamento" :> "Cajamarca") @@ ("Año" :> t)
    @@ ("RangoEdad" :> (ToString(AgeStartOf(e)) \o "-" \o ToString(e)))
    @@ ("EdadInicio" :> AgeStartOf(e)) @@ ("EdadFin" :> e)
    @@ ("Sexo" :> s) @@ ("Población" :> v)

NumInputRows == Len(InputYears) * Len(InputAgeEnds) * Len(Sexes) * Len(InputValues)

\* the k-th input row, 0 <= k < NumInputRows: value-major, then sex, age, year
InputRow(k) ==
    LET yi == k % Len(InputYears)
        k1 == k \div Len(InputYears)
        ai == k1 % Len(InputAgeEnds)
        k2 == k1 \div Len(InputAgeEnds)
        si == k2 % Len(Sexes)
        vi == k2 \div Len(Sexes)
    IN  CsvRow(InputYears[yi + 1], InputAgeEnds[ai + 1], Sexes[si + 1],
               InputValues[vi + 1])

RECURSIVE InputRows(_)
InputRows(ks) == IF ks = <<>> THEN <<>> ELSE <<InputRow(Head(ks))>> \o InputRows(Tail(ks))

\* the files of exactly n rows, as non-decreasing sequences of row numbers
\* (one representative of every multiset of input rows)
RECURSIVE RowNumberSeqs(_)
RowNumberSeqs(n) ==
    IF n = 0 THEN {<<>>}
    ELSE {Append(p[1], p[2]) :
            p \in {q \in RowNumberSeqs(n - 1) \X (0 .. NumInputRows - 1) :
                     q[1] = <<>> \/ q[1][Len(q[1])] <= q[2]}}

\* the grid files: every multiset of at most MaxRows input rows
GridFiles ==
    UNION {{InputRows(ks) : ks \in RowNumberSeqs(n)} : n \in 0 .. MaxRows}

\* the sweep files: one age range and sex in two years, for every EdadFin in
\* 0..MaxAgeEnd and every pair of populations in 0..MaxValue
SweepFiles ==
    {<<CsvRow(1981, e, s, v), CsvRow(2017, e, s, w)>> :
        e \in 0 .. MaxAgeEnd, s \in Range(Sexes), v \in 0 .. MaxValue, w \in 0 .. MaxValue}

InputFiles ==
    {[exists |-> TRUE, rows |-> t] : t \in GridFiles \cup SweepFiles} \cup {MissingFile}

(***************************************************************************)
(* load_data (lines 17-63).                                                *)
(***************************************************************************)
read_csv(f) == f.rows

\* df.rename(columns=...), lines 22-30
rename_columns ==
    ("Departamento" :> "Location") @@ ("Año" :> "Time")
    @@ ("RangoEdad" :> "AgeRange") @@ ("EdadInicio" :> "AgeStart")
    @@ ("EdadFin" :> "AgeEnd") @@ ("Sexo" :> "Sex") @@ ("Población" :> "Value")

rename(row) ==
    LET new(c) == IF c \in DOMAIN rename_columns THEN rename_columns[c] ELSE c
    IN  [n \in {new(c) : c \in DOMAIN row} |->
            row[CHOOSE c \in DOMAIN row : new(c) = n]]

\* lines 33-37: the categories, in their total order
age_groups ==
    <<"0-4", "5-9", "10-14", "15-19", "20-24", "25-29",
      "30-34", "35-39", "40-44", "45-49", "50-54", "55-59",
      "60-64", "65-69", "70-74", "75-79", "80 y más">>

\* faulty variant of age_mapping: the open bracket keyed by its first age
age_mapping_no_open_bracket ==
    (4 :> "0-4") @@ (9 :> "5-9") @@ (14 :> "10-14") @@ (19 :> "15-19")
    @@ (24 :> "20-24") @@ (29 :> "25-29") @@ (34 :> "30-34") @@ (39 :> "35-39")
    @@ (44 :> "40-44") @@ (49 :> "45-49") @@ (54 :> "50-54") @@ (59 :> "55-59")
    @@ (64 :> "60-64") @@ (69 :> "65-69") @@ (74 :> "70-74") @@ (79 :> "75-79")
    @@ (80 :> "80 y más")

\* lines 40-58
age_mapping ==
    (4 :> "0-4") @@ (9 :> "5-9") @@ (14 :> "10-14") @@ (19 :> "15-19")
    @@ (24 :> "20-24") @@ (29 :> "25-29") @@ (34 :> "30-34") @@ (39 :> "35-39")
    @@ (44 :> "40-44") @@ (49 :> "45-49") @@ (54 :> "50-54") @@ (59 :> "55-59")
    @@ (64 :> "60-64") @@ (69 :> "65-69") @@ (74 :> "70-74") @@ (79 :> "75-79")
    @@ (120 :> "80 y más")

\* Series.map(dict): a value that is no key of the dict maps to NaN
map(value, mapping) == IF value \in DOMAIN mapping THEN mapping[value] ELSE NA

\* pd.Categorical(values, categories=...): a value outside the categories is NaN
Categorical(value, categories) == IF value \in Range(categories) THEN value ELSE NA

\* lines 22-61 on one row: rename, then AgeGroup mapped and made categorical
load_row(r) ==
    LET r1 == rename(r)
        g == map(r1["AgeEnd"], age_mapping)
    IN  ("AgeGroup" :> Categorical(g, age_groups)) @@ r1

RECURSIVE load_rows(_)
load_rows(rows) ==
    IF rows = <<>> THEN <<>> ELSE <<load_row(Head(rows))>> \o load_rows(Tail(rows))

\* the body of load_data, lines 19-63
load_data_uncached(f) == load_rows(read_csv(f))

\* faulty variant of load_data: the body runs on every call
load_data_always_reads(c, f) ==
    [value |-> load_data_uncached(f), cache |-> NoEntry, read |-> 1]

\* load_data under @st.cache_data (line 17): a hit returns a copy of the stored
\* value and does not run the body; a miss runs the body and stores its result
load_data(c, f) ==
    IF c.filled
    THEN [value |-> c.value, cache |-> c, read |-> 0]
    ELSE LET v == load_data_uncached(f)
         IN  [value |-> v, cache |-> [filled |-> TRUE, value |-> v], read |-> 1]

(***************************************************************************)
(* DataFrame operations used by the views.                                 *)
(***************************************************************************)
Values(data) == [i \in DOMAIN data |-> data[i]["Value"]]

\* data[data['Time'] == year]
of_year(data, year) == SelectSeq(data, LAMBDA r : r["Time"] = year)

\* data[data['Sex'] == sex]
of_sex(data, sex) == SelectSeq(data, LAMBDA r : r["Sex"] = sex)

of_group(data, g) == SelectSeq(data, LAMBDA r : r["AgeGroup"] = g)

\* faulty variant of groupby_sum: dropna=False, the NaN rows form a group
groupby_sum_keeps_null(data) ==
    LET cats == SelectSeq(age_groups \o <<NA>>,
                          LAMBDA g : \E i \in DOMAIN data : data[i]["AgeGroup"] = g)
    IN  [k \in DOMAIN cats |->
            [AgeGroup |-> cats[k], Value |-> SumSeq(Values(of_group(data, cats[k])))]]

\* .groupby('AgeGroup', observed=True)['Value'].sum().reset_index(): one row per
\* category that occurs in data, in category order; rows whose AgeGroup is NaN
\* belong to no group
groupby_sum(data) ==
    LET cats == SelectSeq(age_groups,
                          LAMBDA g : \E i \in DOMAIN data : data[i]["AgeGroup"] = g)
    IN  [k \in DOMAIN cats |->
            [AgeGroup |-> cats[k], Value |-> SumSeq(Values(of_group(data, cats[k])))]]

(***************************************************************************)
(* The three view builders (lines 70-195): the data each one plots.        *)
(***************************************************************************)
\* faulty variant of generate_population_pyramid: no filter on the year
pyramid_of_all_years(data, year) ==
    LET df_male == groupby_sum(of_sex(data, "Hombre"))
        df_female == groupby_sum(of_sex(data, "Mujer"))
    IN  [Hombres |-> [k \in DOMAIN df_male |->
                        [y |-> df_male[k].AgeGroup, x |-> df_male[k].Value,
                         text |-> df_male[k].Value]],
         Mujeres |-> [k \in DOMAIN df_female |->
                        [y |-> df_female[k].AgeGroup, x |-> -df_female[k].Value,
                         text |-> df_female[k].Value]]]

\* lines 70-104: the two bar traces
generate_population_pyramid(data, year) ==
    LET df_year == of_year(data, year)
        df_male == groupby_sum(of_sex(df_year, "Hombre"))
        df_female == groupby_sum(of_sex(df_year, "Mujer"))
    IN  [Hombres |-> [k \in DOMAIN df_male |->
                        [y |-> df_male[k].AgeGroup, x |-> df_male[k].Value,
                         text |-> df_male[k].Value]],
         Mujeres |-> [k \in DOMAIN df_female |->
                        [y |-> df_female[k].AgeGroup, x |-> -df_female[k].Value,
                         text |-> df_female[k].Value]]]

\* faulty variant of generate_population_trend: one sex only
trend_of_men(data) ==
    LET men == of_sex(data, "Hombre")
        grouped == {i \in DOMAIN men : men[i]["AgeGroup"] # NA}
        index == sorted({men[i]["Time"] : i \in grouped})
        columns == SelectSeq(age_groups,
                             LAMBDA g : \E i \in grouped : men[i]["AgeGroup"] = g)
    IN  [index |-> index, columns |-> columns,
         cell |-> [t \in Range(index) |-> [g \in Range(columns) |->
                    LET rows == of_group(of_year(men, t), g)
                    IN  IF rows = <<>> THEN NaN ELSE Ratio(SumSeq(Values(rows)), 1)]]]

\* line 137: groupby(['Time','AgeGroup'], observed=True)['Value'].sum().unstack();
\* one index entry per year and one column per age group that occur in a group
\* key, NaN where a (year, group) pair has no row; px.area draws one series per
\* column (lines 139-146)
generate_population_trend(data) ==
    LET grouped == {i \in DOMAIN data : data[i]["AgeGroup"] # NA}
        index == sorted({data[i]["Time"] : i \in grouped})
        columns == SelectSeq(age_groups,
                             LAMBDA g : \E i \in grouped : data[i]["AgeGroup"] = g)
    IN  [index |-> index, columns |-> columns,
         cell |-> [t \in Range(index) |-> [g \in Range(columns) |->
                    LET rows == of_group(of_year(data, t), g)
                    IN  IF rows = <<>> THEN NaN ELSE Ratio(SumSeq(Values(rows)), 1)]]]

\* float division of two integers as pandas does it: x/0 is +-inf, 0/0 is NaN
truediv(x, y) ==
    IF y = 0
    THEN IF x > 0 THEN Inf ELSE IF x < 0 THEN NegInf ELSE NaN
    ELSE Ratio(x, y)

\* float * 100
times100(q) == IF q.den = 0 THEN q ELSE Ratio(q.num * 100, q.den)

\* pd.merge(left, right, on='AgeGroup', suffixes=...) with the default how='inner':
\* the left rows, in left order, whose key has a row in right
merge(left, right, suffix1, suffix2) ==
    LET keep == SelectSeq(left,
                          LAMBDA l : \E j \in DOMAIN right : right[j].AgeGroup = l.AgeGroup)
    IN  [k \in DOMAIN keep |->
            LET r == right[CHOOSE j \in DOMAIN right : right[j].AgeGroup = keep[k].AgeGroup]
            IN  ("AgeGroup" :> keep[k].AgeGroup)
                @@ (("Value" \o suffix1) :> keep[k].Value)
                @@ (("Value" \o suffix2) :> r.Value)]

\* faulty variant of generate_comparison_chart: divides by the total of yr2
comparison_over_year2(data, yr1, yr2) ==
    LET df_year1 == groupby_sum(of_year(data, yr1))
        df_year2 == groupby_sum(of_year(data, yr2))
        c1 == "Value_" \o ToString(yr1)
        c2 == "Value_" \o ToString(yr2)
        df_compare == merge(df_year1, df_year2, "_" \o ToString(yr1), "_" \o ToString(yr2))
    IN  [k \in DOMAIN df_compare |->
            ("Change" :> times100(truediv(df_compare[k][c2] - df_compare[k][c1],
                                          df_compare[k][c2])))
            @@ df_compare[k]]

\* faulty variant of generate_comparison_chart: the ratio, not the change
comparison_as_ratio(data, yr1, yr2) ==
    LET df_year1 == groupby_sum(of_year(data, yr1))
        df_year2 == groupby_sum(of_year(data, yr2))
        c1 == "Value_" \o ToString(yr1)
        c2 == "Value_" \o ToString(yr2)
        df_compare == merge(df_year1, df_year2, "_" \o ToString(yr1), "_" \o ToString(yr2))
    IN  [k \in DOMAIN df_compare |->
            ("Change" :> times100(truediv(df_compare[k][c2], df_compare[k][c1])))
            @@ df_compare[k]]

\* faulty variant of generate_comparison_chart: a zero total of yr1 gives 0.0
comparison_guarded(data, yr1, yr2) ==
    LET df_year1 == groupby_sum(of_year(data, yr1))
        df_year2 == groupby_sum(of_year(data, yr2))
        c1 == "Value_" \o ToString(yr1)
        c2 == "Value_" \o ToString(yr2)
        df_compare == merge(df_year1, df_year2, "_" \o ToString(yr1), "_" \o ToString(yr2))
    IN  [k \in DOMAIN df_compare |->
            ("Change" :> IF df_compare[k][c1] = 0 THEN Ratio(0, 1)
                         ELSE times100(truediv(df_compare[k][c2] - df_compare[k][c1],
                                               df_compare[k][c1])))
            @@ df_compare[k]]

\* lines 164-169: df_compare with its Change column
generate_comparison_chart(data, yr1, yr2) ==
    LET df_year1 == groupby_sum(of_year(data, yr1))
        df_year2 == groupby_sum(of_year(data, yr2))
        c1 == "Value_" \o ToString(yr1)
        c2 == "Value_" \o ToString(yr2)
        df_compare == merge(df_year1, df_year2, "_" \o ToString(yr1), "_" \o ToString(yr2))
    IN  [k \in DOMAIN df_compare |->
            ("Change" :> times100(truediv(df_compare[k][c2] - df_compare[k][c1],
                                          df_compare[k][c1])))
            @@ df_compare[k]]

(***************************************************************************)
(* The presentation shell (lines 198-277).                                 *)
(***************************************************************************)
\* lines 229-238
metric_cards(data, year) ==
    [total_pop |-> SumSeq(Values(of_year(data, year))),
     male_pop |-> SumSeq(Values(of_sex(of_year(data, year), "Hombre"))),
     female_pop |-> SumSeq(Values(of_sex(of_year(data, year), "Mujer")))]

\* faulty variant of tab3: no test of year1 == year2
tab3_always_charts(data, a, b) ==
    [warning |-> FALSE, compared |-> TRUE,
     comparison |-> generate_comparison_chart(data, a, b)]

\* lines 255-262
tab3(data, a, b) ==
    IF a = b
    THEN [warning |-> TRUE, compared |-> FALSE, comparison |-> <<>>]
    ELSE [warning |-> FALSE, compared |-> TRUE,
          comparison |-> generate_comparison_chart(data, a, b)]

\* 'Hombre' < 'Mujer' as Python compares strings
SexRank(s) == CHOOSE k \in DOMAIN Sexes : Sexes[k] = s

RowLessEq(r1, r2) ==
    \/ r1["AgeStart"] < r2["AgeStart"]
    \/ r1["AgeStart"] = r2["AgeStart"] /\ SexRank(r1["Sex"]) <= SexRank(r2["Sex"])

\* r inserted after the last row that is <= r
insert(done, r) ==
    LET n == Cardinality({i \in DOMAIN done : RowLessEq(done[i], r)})
    IN  SubSeq(done, 1, n) \o <<r>> \o SubSeq(done, n + 1, Len(done))

\* .sort_values(['AgeStart', 'Sex']): a stable sort on the two columns
RECURSIVE sort_values(_)
sort_values(data) ==
    IF data = <<>> THEN <<>>
    ELSE insert(sort_values(SubSeq(data, 1, Len(data) - 1)), data[Len(data)])

\* line 267
detail_table(data, year) == sort_values(of_year(data, year))

\* faulty variant of df_after_views: the detail table sorts df in place
df_sorted_in_place(data, year, a, b) == sort_values(data)

\* the module-level df once the script has run: the metric cards (231-237), the
\* builders (71-75, 137, 165-169) and the detail table (267) index, group, merge
\* and sort into new frames, and the one column assignment of the views (169)
\* targets df_compare
df_after_views(data, year, a, b) == data

(***************************************************************************)
(* One run of the script (lines 66-277).  In the first run of a session    *)
(* the widgets take their defaults: the last year (line 210), the first    *)
(* and the last year (line 218); in a rerun they hold sel and (a, b).      *)
(* \E x \in {e} binds x to the value of e, as an assignment does.          *)
(* An uncaught exception ends the run; no rerun follows it.                *)
(***************************************************************************)
Script(first, sel, a, b) ==
    IF ~cache.filled /\ ~file.exists
    THEN \* line 19 raises: nothing is cached and the run ends
         /\ status' = "error"
         /\ reads' = reads + 1
         /\ UNCHANGED <<file, cache, df, years, selected_year, year1, year2, metrics,
                        pyramid, trend, compared, comparison, warning, detail>>
    ELSE \E ld \in {load_data(cache, file)} :
         \E ys \in {sorted({ld.value[i]["Time"] : i \in DOMAIN ld.value})} :
             /\ cache' = ld.cache
             /\ reads' = reads + ld.read
             /\ years' = ys
             /\ UNCHANGED file
             /\ IF ys = <<>>
                THEN \* years[0] at line 218 raises IndexError
                     /\ status' = "error"
                     /\ df' = ld.value
                     /\ UNCHANGED <<selected_year, year1, year2, metrics, pyramid,
                                    trend, compared, comparison, warning, detail>>
                ELSE \E s \in {IF first THEN ys[Len(ys)] ELSE sel} :
                     \E lo \in {IF first THEN ys[1] ELSE a} :
                     \E hi \in {IF first THEN ys[Len(ys)] ELSE b} :
                     \E t3 \in {tab3(ld.value, lo, hi)} :
                         /\ status' = "ok"
                         /\ selected_year' = s
                         /\ year1' = lo
                         /\ year2' = hi
                         /\ metrics' = metric_cards(ld.value, s)
                         /\ pyramid' = generate_population_pyramid(ld.value, s)
                         /\ trend' = generate_population_trend(ld.value)
                         /\ compared' = t3.compared
                         /\ comparison' = t3.comparison
                         /\ warning' = t3.warning
                         /\ detail' = detail_table(ld.value, s)
                         /\ df' = df_after_views(ld.value, s, lo, hi)

\* the process has started and the script has not run: nothing is on the page
Init ==
    /\ file \in InputFiles
    /\ cache = NoEntry
    /\ reads = 0
    /\ status = "start"
    /\ df = <<>>
    /\ years = <<>>
    /\ selected_year = 0
    /\ year1 = 0
    /\ year2 = 0
    /\ metrics = [total_pop |-> 0, male_pop |-> 0, female_pop |-> 0]
    /\ pyramid = [Hombres |-> <<>>, Mujeres |-> <<>>]
    /\ trend = [index |-> <<>>, columns |-> <<>>, cell |-> <<>>]
    /\ compared = FALSE
    /\ comparison = <<>>
    /\ warning = FALSE
    /\ detail = <<>>

\* the first run of the script in the process
FirstRun ==
    /\ status = "start"
    /\ Script(TRUE, 0, 0, 0)

\* the user picks another year in the selectbox (line 207): the script reruns
SelectYear ==
    /\ status = "ok"
    /\ \E y \in Range(years) : y # selected_year /\ Script(FALSE, y, year1, year2)

\* the user moves a handle of the range slider (line 215), which yields an
\* ordered pair of options: the script reruns
SelectRange ==
    /\ status = "ok"
    /\ \E lo \in Range(years), hi \in Range(years) :
          /\ lo <= hi
          /\ <<lo, hi>> # <<year1, year2>>
          /\ Script(FALSE, selected_year, lo, hi)

Next == FirstRun \/ SelectYear \/ SelectRange

Spec == Init /\ [][Next]_vars

(***************************************************************************)
(* Properties.                                                             *)
(***************************************************************************)
\* the mapping table as the specification lists it
ListedLabels ==
    << <<4, "0-4">>, <<9, "5-9">>, <<14, "10-14">>, <<19, "15-19">>,
       <<24, "20-24">>, <<29, "25-29">>, <<34, "30-34">>, <<39, "35-39">>,
       <<44, "40-44">>, <<49, "45-49">>, <<54, "50-54">>, <<59, "55-59">>,
       <<64, "60-64">>, <<69, "65-69">>, <<74, "70-74">>, <<79, "75-79">>,
       <<120, "80 y más">> >>

ListedKeys == {ListedLabels[k][1] : k \in DOMAIN ListedLabels}

\* the rows of the loaded table with the given year, sex ("*": both) and
\* mapped / unmapped AgeEnd
RowsOf(year, sex, mapped) ==
    SelectSeq(df, LAMBDA r : /\ r["Time"] = year
                             /\ sex \in {"*", r["Sex"]}
                             /\ (r["AgeEnd"] \in ListedKeys) = mapped)

\* the rows of a year in an age group, and their total
GroupRows(year, g) == SelectSeq(df, LAMBDA r : r["Time"] = year /\ r["AgeGroup"] = g)
GroupTotal(year, g) == SumSeq(Values(GroupRows(year, g)))

BarSum(bars) == SumSeq([k \in DOMAIN bars |-> Abs(bars[k].x)])

\* C1: every row of the loaded table whose AgeEnd is one of the 17 listed keys
\* carries exactly the listed label as AgeGroup, and every other row has no
\* AgeGroup
C1_AgeGroupLabels ==
    \A i \in DOMAIN df :
        IF df[i]["AgeEnd"] \in ListedKeys
        THEN \E k \in DOMAIN ListedLabels :
                ListedLabels[k] = <<df[i]["AgeEnd"], df[i]["AgeGroup"]>>
        ELSE df[i]["AgeGroup"] = NA

C1_Witness ==
    /\ status = "ok"
    /\ \E i \in DOMAIN df : df[i]["AgeEnd"] = 120 /\ df[i]["AgeGroup"] = "80 y más"

\* C2 as stated: the male bars add up to the male metric card and the female
\* bars, in absolute value, to the female metric card
C2_Original ==
    status = "ok" =>
        /\ BarSum(pyramid.Hombres) = metrics.male_pop
        /\ BarSum(pyramid.Mujeres) = metrics.female_pop

\* C2 amended: the male (female) bars add up to the male (female) total of the
\* selected year less the population of that year's male (female) rows whose
\* AgeEnd is no key of the mapping table
C2_PyramidTotals ==
    status = "ok" =>
        /\ \A k \in DOMAIN pyramid.Hombres : pyramid.Hombres[k].x >= 0
        /\ \A k \in DOMAIN pyramid.Mujeres : pyramid.Mujeres[k].x <= 0
        /\ BarSum(pyramid.Hombres)
             = metrics.male_pop - SumSeq(Values(RowsOf(selected_year, "Hombre", FALSE)))
        /\ BarSum(pyramid.Mujeres)
             = metrics.female_pop - SumSeq(Values(RowsOf(selected_year, "Mujer", FALSE)))

C2_Witness ==
    /\ status = "ok"
    /\ BarSum(pyramid.Hombres) > 0
    /\ BarSum(pyramid.Mujeres) > 0
    /\ SumSeq(Values(RowsOf(selected_year, "Hombre", FALSE))) > 0

\* the sum of all series of the trend chart at a year of its axis
SeriesSum(year) ==
    LET cols == trend.columns
    IN  SumSeq([k \in DOMAIN cols |->
                  IF trend.cell[year][cols[k]].den = 0 THEN 0
                  ELSE trend.cell[year][cols[k]].num])

\* C3 as stated: at every year of the table the series add up to the total
\* population of that year
C3_Original ==
    status = "ok" =>
        \A y \in Range(years) :
            /\ y \in Range(trend.index)
            /\ SeriesSum(y) = SumSeq(Values(of_year(df, y)))

\* C3 amended: at every year that has a row whose AgeEnd is a key of the
\* mapping table the series add up to the total of that year's rows with such
\* an AgeEnd, and the other years are not on the axis
C3_TrendTotals ==
    status = "ok" =>
        \A y \in Range(years) :
            IF RowsOf(y, "*", TRUE) # <<>>
            THEN /\ y \in Range(trend.index)
                 /\ \A g \in Range(trend.columns) : trend.cell[y][g].den \in {0, 1}
                 /\ SeriesSum(y) = SumSeq(Values(RowsOf(y, "*", TRUE)))
            ELSE y \notin Range(trend.index)

C3_Witness ==
    /\ status = "ok"
    /\ \E y \in Range(trend.index) :
          /\ SeriesSum(y) > 1
          /\ SumSeq(Values(RowsOf(y, "*", FALSE))) > 0

\* the age groups with rows in both compared years
JoinedGroups ==
    {g \in Range(age_groups) : GroupRows(year1, g) # <<>> /\ GroupRows(year2, g) # <<>>}

Value1(row) == row["Value_" \o ToString(year1)]
Value2(row) == row["Value_" \o ToString(year2)]

\* C4: when no age group of year1 has a zero total, the comparison has exactly
\* one row for each age group with rows in both years, and the Change of the
\* row of g is the number 100*(V2[g]-V1[g])/V1[g]
C4_ComparisonChange ==
    (/\ status = "ok"
     /\ compared
     /\ \A g \in Range(age_groups) :
           GroupRows(year1, g) # <<>> => GroupTotal(year1, g) # 0)
    => /\ {comparison[k]["AgeGroup"] : k \in DOMAIN comparison} = JoinedGroups
       /\ Len(comparison) = Cardinality(JoinedGroups)
       /\ \A k \in DOMAIN comparison :
             LET g == comparison[k]["AgeGroup"]
                 c == comparison[k]["Change"]
             IN  /\ Value1(comparison[k]) = GroupTotal(year1, g)
                 /\ Value2(comparison[k]) = GroupTotal(year2, g)
                 /\ c.den > 0
                 /\ c.num * GroupTotal(year1, g)
                      = 100 * (GroupTotal(year2, g) - GroupTotal(year1, g)) * c.den

C4_Witness ==
    /\ status = "ok"
    /\ compared
    /\ \A g \in Range(age_groups) :
          GroupRows(year1, g) # <<>> => GroupTotal(year1, g) # 0
    /\ comparison # <<>>
    /\ \E g \in Range(age_groups) \ JoinedGroups :
          GroupRows(year1, g) # <<>> \/ GroupRows(year2, g) # <<>>

\* C5: the file is read at most once in the process: once load_data has a
\* cached table no run reads the file, and the run's table is the cached one
C5_ReadsOnce ==
    /\ [](reads <= 1)
    /\ [](cache.filled => reads = 1)
    /\ [][cache.filled => (reads' = reads /\ df' = cache.value)]_vars

C5_Witness ==
    /\ status = "ok"
    /\ reads = 1
    /\ selected_year # years[Len(years)]

\* C6: a run shows the warning exactly when year1 = year2 and invokes
\* generate_comparison_chart exactly when year1 # year2
C6_WarningOrChart ==
    status = "ok" =>
        /\ year1 \in Range(years) /\ year2 \in Range(years) /\ year1 <= year2
        /\ warning = (year1 = year2)
        /\ compared = (year1 # year2)

C6_Witness ==
    /\ status = "ok"
    /\ Len(years) = 2
    /\ year1 = year2
    /\ warning
    /\ ~compared

\* data without its i-th row
WithoutRow(data, i) == SubSeq(data, 1, i - 1) \o SubSeq(data, i + 1, Len(data))

\* C7: what the three builders plot is what they plot for the table without
\* any one row whose AgeEnd is no key of the mapping table
C7_UnmappedRowsIgnored ==
    status = "ok" =>
        \A i \in DOMAIN df :
            df[i]["AgeEnd"] \notin ListedKeys =>
                /\ pyramid = generate_population_pyramid(WithoutRow(df, i), selected_year)
                /\ trend = generate_population_trend(WithoutRow(df, i))
                /\ compared =>
                     comparison = generate_comparison_chart(WithoutRow(df, i), year1, year2)

C7_Witness ==
    /\ status = "ok"
    /\ compared
    /\ comparison # <<>>
    /\ pyramid.Hombres # <<>>
    /\ \E i \in DOMAIN df :
          /\ df[i]["AgeEnd"] = 82
          /\ df[i]["Time"] = selected_year
          /\ df[i]["Sex"] = "Hombre"
          /\ df[i]["Value"] > 0

\* the rows of year1 and of year2 are the same but for their Time
IdenticalYears ==
    \A i \in DOMAIN df :
        df[i]["Time"] \in {year1, year2} =>
            Cardinality({j \in DOMAIN df : df[j] = [df[i] EXCEPT !["Time"] = year1]})
              = Cardinality({j \in DOMAIN df : df[j] = [df[i] EXCEPT !["Time"] = year2]})

\* C8 as stated: with identical rows in the two years every Change is 0.0
C8_Original ==
    (status = "ok" /\ compared /\ IdenticalYears) =>
        \A k \in DOMAIN comparison : comparison[k]["Change"] = Ratio(0, 1)

\* C8 amended: with identical rows in the two years the Change of an age group
\* is 0.0 when the total of the group is not zero and NaN when it is zero
C8_IdenticalYears ==
    (status = "ok" /\ compared /\ IdenticalYears) =>
        \A k \in DOMAIN comparison :
            comparison[k]["Change"] =
                IF GroupTotal(year1, comparison[k]["AgeGroup"]) # 0
                THEN Ratio(0, 1) ELSE NaN

C8_Witness ==
    /\ status = "ok"
    /\ compared
    /\ IdenticalYears
    /\ \E k \in DOMAIN comparison :
          /\ comparison[k]["Change"] = Ratio(0, 1)
          /\ Value1(comparison[k]) > 1

\* C9: a run over a table with rows ends normally, and an age group with rows
\* in both years and a zero total in year1 keeps its row, with a non-finite
\* Change
C9_ZeroDenominator ==
    (status # "start" /\ df # <<>>) =>
        /\ status = "ok"
        /\ compared =>
             \A g \in JoinedGroups :
                 GroupTotal(year1, g) = 0 =>
                     \E k \in DOMAIN comparison :
                         /\ comparison[k]["AgeGroup"] = g
                         /\ comparison[k]["Change"] \in {NaN, Inf, NegInf}

C9_Witness ==
    /\ status = "ok"
    /\ compared
    /\ \E k \in DOMAIN comparison :
          /\ Value1(comparison[k]) = 0
          /\ Value2(comparison[k]) > 0
          /\ comparison[k]["Change"] = Inf

\* C10: once loaded, the table does not change: the cached table stays what it
\* is and the script's df is that table in every run
C10_TableUnchanged ==
    /\ [](cache.filled => df = cache.value)
    /\ [][cache.filled => (cache' = cache /\ df' = df)]_vars

C10_Witness ==
    /\ status = "ok"
    /\ Len(years) = 2
    /\ year1 = year2
    /\ detail # <<>>
    /\ detail # of_year(df, selected_year)
    /\ df = cache.value

====
